---- MODULE Spec2Model ----
(***************************************************************************)
(* Model of msg-auth: session based role authorization on top of an OAuth  *)
(* callback.  One browser session is followed through a sequence of HTTP    *)
(* requests (guarded routes, unguarded routes, /auth/callback, /logout),    *)
(* every one of them passing through the update_activity middleware of     *)
(* main.py.  compute_roles is modelled as the worklist loop it is, one loop *)
(* iteration per step.                                                      *)
(*                                                                          *)
(* Abstractions: a request reads the clock once (int(time.time()) is taken  *)
(* to return the same second throughout one request); the session mapping   *)
(* is the mutable dict request.session, whose writes are all kept; the      *)
(* DEBUG-only key group_ids is left out; `user` is an opaque value.         *)
(***************************************************************************)
EXTENDS Integers, Sequences, FiniteSets, TLC

\* ------------------------------------------------------------------ bounds
\* first clock value (epoch seconds are far larger than every threshold)
StartTime == 10
\* number of seconds the clock may advance
MaxTick == 3

Times == StartTime..(StartTime + MaxTick)

\* ------------------------------------------------------------------ strings
\* str.lower() over the strings of the model
Lower(s) ==
    CASE s = "Admin"   -> "admin"
      [] s = "ABC-123" -> "abc-123"
      [] OTHER         -> s

LowerAll(S) == {Lower(s) : s \in S}

\* ------------------------------------------------------------------ session mapping
EmptySession == [k \in {} |-> 0]

\* `key in request.session`
Has(sess, k) == k \in DOMAIN sess

\* request.session.get(key, default)
Get(sess, k, d) == IF k \in DOMAIN sess THEN sess[k] ELSE d

\* request.session[key] = value
Put(sess, k, v) == [x \in (DOMAIN sess) \cup {k} |-> IF x = k THEN v ELSE sess[x]]

\* a list of role names as stored under "roles" (order is irrelevant, the
\* code only ever turns it into a set); NotAList is any non-list value
RoleList(S) == [kind |-> "list", items |-> S]
NotAList == [kind |-> "other", items |-> {}]

\* ------------------------------------------------------------------ configuration
\* main.py's ROLE_GROUPS / ROLE_INHERITS, with one group id written in upper case
CfgMain ==
    [ role_groups   |-> [admin |-> {"ABC-123"}, support |-> {"g2"}, user |-> {"g3"}],
      role_inherits |-> [admin |-> {"support", "user"}, support |-> {"user"}, user |-> {}] ]

\* a cyclic inheritance configuration; role c has an empty group set
CfgCycle ==
    [ role_groups   |-> [a |-> {"abc-123"}, b |-> {"g2"}, c |-> {}],
      role_inherits |-> [a |-> {"b"}, b |-> {"a"}] ]

\* a chain of two inheritance steps, a role name written with an upper-case
\* letter, and an implied role ("user") that has no groups of its own
CfgChain ==
    [ role_groups   |-> [Admin |-> {"ABC-123"}, support |-> {"g2"}],
      role_inherits |-> [Admin |-> {"support"}, support |-> {"user"}] ]

\* a configuration that names 21 distinct group ids
CfgWide ==
    [ role_groups   |-> [admin |-> {"w01", "w02", "w03", "w04", "w05", "w06", "w07", "w08",
                                    "w09", "w10", "w11"},
                         user  |-> {"w12", "w13", "w14", "w15", "w16", "w17", "w18", "w19",
                                    "w20", "w21"}],
      role_inherits |-> [admin |-> {"user"}] ]

Configs == {CfgMain, CfgCycle, CfgChain, CfgWide}

\* Graph's checkMemberGroups takes at most this many group ids per request
MaxBatch == 20

\* create_auth_router and MicrosoftOAuthProvider.__init__ store role_groups and
\* role_inherits as they are given; no configuration makes them fail
create_auth_router(c) == TRUE

\* ROLE_REFRESH_INTERVAL_SECONDS and SESSION_MAX_IDLE_SECONDS (0 = disabled)
Intervals == {0, 3}
MaxIdles == {0, 2}

\* group ids a caller or the Graph API may hand over
GroupIds == {"ABC-123", "abc-123", "g2", "g3"}

\* every role name of the model
RoleNames == {"admin", "Admin", "support", "user", "a", "b", "c"}

VARIABLES
    session,    \* request.session of the one browser session followed
    now,        \* int(time.time())
    cfg,        \* role_groups / role_inherits given to create_auth_router
    interval,   \* _role_refresh_interval_seconds()
    max_idle,   \* _session_max_idle_seconds()
    pc,         \* "idle", or "compute" while compute_roles runs
    cr,         \* the locals of the running compute_roles call
    last,       \* the last completed request: what it was and how it ended
    expired     \* a guarded request was rejected for idleness since the last login

vars == <<session, now, cfg, interval, max_idle, pc, cr, last, expired>>

\* ------------------------------------------------------------------ session.py
\* get_roles: the set of role names stored in the session
get_roles(sess) ==
    LET raw == Get(sess, "roles", RoleList({}))
    IN  IF raw.kind = "list" THEN raw.items ELSE {}

\* is_session_stale with the thresholds compared strictly
is_session_stale_Strict(sess, t) ==
    LET fetched_at == Get(sess, "groups_fetched_at", 0)
        last_at    == Get(sess, "last_activity_at", t)
    IN  IF interval > 0 /\ t - fetched_at > interval THEN TRUE
        ELSE IF max_idle > 0 /\ t - last_at > max_idle THEN TRUE
        ELSE FALSE

\* is_session_stale at clock value t
is_session_stale(sess, t) ==
    LET fetched_at == Get(sess, "groups_fetched_at", 0)
        last_at    == Get(sess, "last_activity_at", t)
    IN  IF interval > 0 /\ t - fetched_at >= interval THEN TRUE
        ELSE IF max_idle > 0 /\ t - last_at >= max_idle THEN TRUE
        ELSE FALSE

\* a stamp that refreshes groups_fetched_at along with last_activity_at
touch_session_activity_BothStamps(sess, t) ==
    Put(Put(sess, "last_activity_at", t), "groups_fetched_at", t)

\* touch_session_activity
touch_session_activity(sess, t) == Put(sess, "last_activity_at", t)

\* raise HTTPException(status_code, detail)
HTTPException(status, detail) == [status |-> status, detail |-> detail]

\* the dependency returned True
Allow == [status |-> 200, detail |-> "ok"]

NotAuthenticated == HTTPException(401, "Not authenticated")
SessionExpired == HTTPException(401, "Session expired or inactive; please log in again")

\* {role.lower() for role in required_roles if role}
RequiredSet(args) == {Lower(args[i]) : i \in {j \in 1..Len(args) : args[j] # ""}}

\* require_roles._dep without its check for `user`
require_roles_dep_NoUserCheck(args, sess, t) ==
    LET required == RequiredSet(args)
    IN  IF is_session_stale(sess, t) THEN [decision |-> SessionExpired, session |-> sess]
        ELSE LET touched    == touch_session_activity(sess, t)
                 user_roles == LowerAll(get_roles(touched))
                 missing    == required \ user_roles
             IN  IF missing # {}
                 THEN [decision |-> HTTPException(403, "Forbidden (missing required roles)"),
                       session  |-> touched]
                 ELSE [decision |-> Allow, session |-> touched]

\* require_roles._dep content with one required role
require_roles_dep_AnyOf(args, sess, t) ==
    LET required == RequiredSet(args)
    IN  IF ~Has(sess, "user") THEN [decision |-> NotAuthenticated, session |-> sess]
        ELSE IF is_session_stale(sess, t) THEN [decision |-> SessionExpired, session |-> sess]
        ELSE LET touched    == touch_session_activity(sess, t)
                 user_roles == LowerAll(get_roles(touched))
             IN  IF required # {} /\ required \cap user_roles = {}
                 THEN [decision |-> HTTPException(403, "Forbidden (missing required roles)"),
                       session  |-> touched]
                 ELSE [decision |-> Allow, session |-> touched]

\* require_roles(*args)._dep : the decision and the session it leaves
require_roles_dep(args, sess, t) ==
    LET required == RequiredSet(args)
    IN  IF ~Has(sess, "user") THEN [decision |-> NotAuthenticated, session |-> sess]
        ELSE IF is_session_stale(sess, t) THEN [decision |-> SessionExpired, session |-> sess]
        ELSE LET touched    == touch_session_activity(sess, t)
                 user_roles == LowerAll(get_roles(touched))
                 missing    == required \ user_roles
             IN  IF missing # {}
                 THEN [decision |-> HTTPException(403, "Forbidden (missing required roles)"),
                       session  |-> touched]
                 ELSE [decision |-> Allow, session |-> touched]

\* require_role._dep writing the roles back to the session in lower case
require_role_dep_StoresLowered(args, sess, t) ==
    LET role == Lower(args[1])
    IN  IF ~Has(sess, "user") THEN [decision |-> NotAuthenticated, session |-> sess]
        ELSE IF is_session_stale(sess, t) THEN [decision |-> SessionExpired, session |-> sess]
        ELSE LET touched == Put(touch_session_activity(sess, t), "roles",
                                RoleList(LowerAll(get_roles(sess))))
             IN  IF role \notin get_roles(touched)
                 THEN [decision |-> HTTPException(403, "Forbidden (missing role)"),
                       session  |-> touched]
                 ELSE [decision |-> Allow, session |-> touched]

\* require_role(role)._dep ; args is the one-element tuple <<role>>
require_role_dep(args, sess, t) ==
    LET role == Lower(args[1])
    IN  IF ~Has(sess, "user") THEN [decision |-> NotAuthenticated, session |-> sess]
        ELSE IF is_session_stale(sess, t) THEN [decision |-> SessionExpired, session |-> sess]
        ELSE LET touched == touch_session_activity(sess, t)
             IN  IF role \notin get_roles(touched)
                 THEN [decision |-> HTTPException(403, "Forbidden (missing role)"),
                       session  |-> touched]
                 ELSE [decision |-> Allow, session |-> touched]

\* require_any_role._dep stamping the activity before it checks staleness
require_any_role_dep_StampFirst(args, sess, t) ==
    LET required == RequiredSet(args)
    IN  IF ~Has(sess, "user") THEN [decision |-> NotAuthenticated, session |-> sess]
        ELSE LET touched    == touch_session_activity(sess, t)
                 user_roles == get_roles(touched)
             IN  IF is_session_stale(touched, t)
                 THEN [decision |-> SessionExpired, session |-> touched]
                 ELSE IF required \cap user_roles = {}
                 THEN [decision |-> HTTPException(403, "Forbidden (no acceptable role)"),
                       session  |-> touched]
                 ELSE [decision |-> Allow, session |-> touched]

\* require_any_role(*args)._dep
require_any_role_dep(args, sess, t) ==
    LET required == RequiredSet(args)
    IN  IF ~Has(sess, "user") THEN [decision |-> NotAuthenticated, session |-> sess]
        ELSE IF is_session_stale(sess, t) THEN [decision |-> SessionExpired, session |-> sess]
        ELSE LET touched    == touch_session_activity(sess, t)
                 user_roles == get_roles(touched)
             IN  IF required \cap user_roles = {}
                 THEN [decision |-> HTTPException(403, "Forbidden (no acceptable role)"),
                       session  |-> touched]
                 ELSE [decision |-> Allow, session |-> touched]

\* the guards built at start-up: the routes of main.py and further
\* constructions of the three factories
Guards ==
    { [kind |-> "require_roles",    args |-> <<"admin">>],
      [kind |-> "require_roles",    args |-> <<"support">>],
      [kind |-> "require_roles",    args |-> <<"Admin", "support">>],
      [kind |-> "require_roles",    args |-> <<"a", "b">>],
      [kind |-> "require_roles",    args |-> <<"">>],
      [kind |-> "require_roles",    args |-> <<"admin", " ">>],
      [kind |-> "require_roles",    args |-> << >>],
      [kind |-> "require_any_role", args |-> <<"support", "admin">>],
      [kind |-> "require_any_role", args |-> <<"Admin">>],
      [kind |-> "require_any_role", args |-> <<"c", "user">>],
      [kind |-> "require_any_role", args |-> << >>],
      [kind |-> "require_any_role", args |-> <<"admin", " ">>],
      [kind |-> "require_role",     args |-> <<"admin">>],
      [kind |-> "require_role",     args |-> <<"Admin">>],
      [kind |-> "require_role",     args |-> <<"b">>] }

NoGuard == [kind |-> "none", args |-> << >>]

\* Depends(guard): run the guard's _dep on the request
Dep(g, sess, t) ==
    CASE g.kind = "require_roles"    -> require_roles_dep(g.args, sess, t)
      [] g.kind = "require_role"     -> require_role_dep(g.args, sess, t)
      [] g.kind = "require_any_role" -> require_any_role_dep(g.args, sess, t)

\* ------------------------------------------------------------------ main.py
\* update_activity without its test for `user`
update_activity_Always(sess, t) == touch_session_activity(sess, t)

\* update_activity without its stamp
update_activity_Never(sess, t) == sess

\* update_activity, the part after call_next returned a response
update_activity(sess, t) ==
    IF Has(sess, "user") THEN touch_session_activity(sess, t) ELSE sess

\* the idle limit is passed for this session at clock value t
IdleLimitPassed(sess, t) ==
    max_idle > 0 /\ Has(sess, "last_activity_at") /\ t - sess["last_activity_at"] >= max_idle

\* what is recorded about a completed request
Completed(op, g, decision, pre, mid, t) ==
    [op |-> op, guard |-> g, decision |-> decision, pre |-> pre, mid |-> mid, t |-> t,
     was_expired |-> expired]

\* a request to a route protected by guard g
GuardedRequest(g) ==
    /\ pc = "idle"
    /\ LET r == Dep(g, session, now)
       IN  /\ session' = update_activity(r.session, now)
           /\ last' = Completed("guard", g, r.decision, session, r.session, now)
           /\ expired' = (expired \/ (r.decision = SessionExpired /\ IdleLimitPassed(session, now)))
    /\ UNCHANGED <<now, cfg, interval, max_idle, pc, cr>>

\* a request to a route without a guard ("/", "/me", "/login")
UnguardedRequest ==
    /\ pc = "idle"
    /\ session' = update_activity(session, now)
    /\ last' = Completed("plain", NoGuard, Allow, session, session, now)
    /\ UNCHANGED <<now, cfg, interval, max_idle, pc, cr, expired>>

\* ------------------------------------------------------------------ router.py
\* a logout that removes `user` alone
Logout_PopUser ==
    /\ pc = "idle"
    /\ session' = update_activity([k \in (DOMAIN session) \ {"user"} |-> session[k]], now)
    /\ last' = Completed("logout", NoGuard, [status |-> 307, detail |-> "/"], session, EmptySession, now)
    /\ UNCHANGED <<now, cfg, interval, max_idle, pc, cr, expired>>

\* GET /logout : request.session.clear(), then the middleware
Logout ==
    /\ pc = "idle"
    /\ session' = update_activity(EmptySession, now)
    /\ last' = Completed("logout", NoGuard, [status |-> 307, detail |-> "/"], session, EmptySession, now)
    /\ UNCHANGED <<now, cfg, interval, max_idle, pc, cr, expired>>

\* the clock advances by one second between requests
Tick ==
    /\ pc = "idle"
    /\ now < StartTime + MaxTick
    /\ now' = now + 1
    /\ UNCHANGED <<session, cfg, interval, max_idle, pc, cr, last, expired>>

\* ------------------------------------------------------------------ authz_config.py
\* get_all_config_group_ids: the union of the configured group sets
get_all_config_group_ids(role_groups) == UNION {role_groups[r] : r \in DOMAIN role_groups}

\* compute_roles, first loop: the roles whose lowercased group set meets G
DirectRoles(G, role_groups) ==
    {role \in DOMAIN role_groups : G \cap {Lower(g) : g \in role_groups[role]} # {}}

\* the inner loop without its `implied not in expanded` test
NewlyImplied_NoVisited(r, expanded, role_inherits) == Get(role_inherits, r, {})

\* compute_roles, inner loop for the popped role r: the implied roles that
\* are not in `expanded` yet, which are added and pushed
NewlyImplied(r, expanded, role_inherits) == Get(role_inherits, r, {}) \ expanded

\* every order in which the elements of a set may be listed
Orders(S) == {q \in [1..Cardinality(S) -> S] : {q[i] : i \in 1..Cardinality(S)} = S}

\* number of pushes onto the stack, per role
NoPushes == [r \in RoleNames |-> 0]
CountPushes(pushes, S) == [r \in RoleNames |-> IF r \in S THEN pushes[r] + 1 ELSE pushes[r]]

CrIdle == [caller |-> "none", G |-> {}, direct |-> {}, expanded |-> {}, stack |-> << >>,
           pushes |-> NoPushes, pops |-> 0]

\* compute_roles up to the while loop: roles, expanded = set(roles), stack = list(roles)
ComputeEnter(caller, G, order) ==
    LET roles == DirectRoles(G, cfg.role_groups)
    IN  [caller |-> caller, G |-> G, direct |-> roles, expanded |-> roles, stack |-> order,
         pushes |-> CountPushes(NoPushes, roles), pops |-> 0]

\* one iteration that adds the implied roles but does not push them
ComputeIterate_NoPush(c, order) ==
    LET r == c.stack[Len(c.stack)]
        fresh == NewlyImplied(r, c.expanded, cfg.role_inherits)
    IN  [c EXCEPT !.expanded = c.expanded \cup fresh,
                  !.stack = SubSeq(c.stack, 1, Len(c.stack) - 1),
                  !.pops = c.pops + 1]

\* one iteration of `while stack`: pop r, add and push what it newly implies
ComputeIterate(c, order) ==
    LET r == c.stack[Len(c.stack)]
        fresh == NewlyImplied(r, c.expanded, cfg.role_inherits)
    IN  [c EXCEPT !.expanded = c.expanded \cup fresh,
                  !.stack = SubSeq(c.stack, 1, Len(c.stack) - 1) \o order,
                  !.pushes = CountPushes(c.pushes, fresh),
                  !.pops = c.pops + 1]

ComputeStep ==
    /\ pc = "compute"
    /\ cr.stack # << >>
    /\ \E order \in Orders(NewlyImplied(cr.stack[Len(cr.stack)], cr.expanded, cfg.role_inherits)) :
          cr' = ComputeIterate(cr, order)
    /\ UNCHANGED <<session, now, cfg, interval, max_idle, pc, last, expired>>

\* a caller outside the request handlers calls compute_roles(G, role_groups,
\* role_inherits); the function reads nothing of the session, so such calls are
\* followed before the first request on an empty session only
ComputeCall(G) ==
    /\ pc = "idle"
    /\ last.op = "none"
    /\ session = EmptySession
    /\ \E order \in Orders(DirectRoles(G, cfg.role_groups)) :
          cr' = ComputeEnter("direct", G, order)
    /\ pc' = "compute"
    /\ UNCHANGED <<session, now, cfg, interval, max_idle, last, expired>>

\* return list(expanded) to that caller
ComputeReturn ==
    /\ pc = "compute"
    /\ cr.stack = << >>
    /\ cr.caller = "direct"
    /\ pc' = "idle"
    /\ cr' = CrIdle
    /\ UNCHANGED <<session, now, cfg, interval, max_idle, last, expired>>

\* ------------------------------------------------------------------ microsoft.py
\* _check_member_groups: Graph is asked about the lowercased ids and answers
\* with those the user is a member of, in whatever case; the answer is lowercased
\* (a request that names more than MaxBatch ids gets no answer but an error)
GraphAnswers(group_ids) ==
    IF Cardinality(LowerAll(group_ids)) > MaxBatch THEN {}
    ELSE SUBSET {g \in GroupIds : Lower(g) \in LowerAll(group_ids)}
check_member_groups(answer) == LowerAll(answer)

\* how the provider step of a callback can end
ProviderOutcomes == {"ok", "token_error", "id_token_error", "graph_error"}

\* ------------------------------------------------------------------ router.py
TheUser == "user-1"
Pending == [status |-> 0, detail |-> "running"]

\* a callback that stores the user before the provider step has succeeded
CallbackFailure_UserFirst(outcome, sess, t) ==
    CASE outcome = "token_error" ->
            [decision |-> [status |-> 500, detail |-> "TypeError"],
             session  |-> Put(sess, "user", TheUser)]
      [] outcome = "graph_error" ->
            [decision |-> [status |-> 500, detail |-> "HTTPStatusError"],
             session  |-> Put(sess, "user", TheUser)]
      [] outcome = "id_token_error" ->
            [decision |-> [status |-> 400, detail |-> "OAuthError"],
             session  |-> update_activity(Put(sess, "user", TheUser), t)]

\* GET /auth/callback whose provider step fails:
\*  token_error    authorize_access_token raises OAuthError; handle_callback
\*                 returns a JSONResponse, which auth_callback cannot unpack
\*                 into (userinfo, member_groups): TypeError, not caught
\*  graph_error    raise_for_status raises httpx.HTTPStatusError, not caught
\*  id_token_error an OAuthError leaves handle_callback and is caught by
\*                 auth_callback, which answers 400
\* An exception that is not caught leaves call_next, so update_activity does
\* not reach its touch.
CallbackFailure(outcome, sess, t) ==
    CASE outcome = "token_error" ->
            [decision |-> [status |-> 500, detail |-> "TypeError"], session |-> sess]
      [] outcome = "graph_error" ->
            [decision |-> [status |-> 500, detail |-> "HTTPStatusError"], session |-> sess]
      [] outcome = "id_token_error" ->
            [decision |-> [status |-> 400, detail |-> "OAuthError"],
             session  |-> update_activity(sess, t)]

AuthCallbackFail(outcome) ==
    /\ pc = "idle"
    /\ outcome # "ok"
    /\ LET r == CallbackFailure(outcome, session, now)
       IN  /\ session' = r.session
           /\ last' = Completed("callback", NoGuard, r.decision, session, session, now)
    /\ UNCHANGED <<now, cfg, interval, max_idle, pc, cr, expired>>

\* auth_callback lines 38-47: what is written before compute_roles is called
CallbackWrites(sess, t) == Put(Put(sess, "user", TheUser), "groups_fetched_at", t)

\* GET /auth/callback, provider step succeeded with the Graph answer `answer`
AuthCallbackBegin(answer) ==
    /\ pc = "idle"
    /\ answer \in GraphAnswers(get_all_config_group_ids(cfg.role_groups))
    /\ session' = CallbackWrites(session, now)
    /\ \E order \in Orders(DirectRoles(check_member_groups(answer), cfg.role_groups)) :
          cr' = ComputeEnter("callback", check_member_groups(answer), order)
    /\ pc' = "compute"
    /\ last' = Completed("callback", NoGuard, Pending, session, session, now)
    /\ expired' = FALSE
    /\ UNCHANGED <<now, cfg, interval, max_idle>>

\* compute_roles returned: session["roles"] = its result, redirect to /me,
\* then the middleware
AuthCallbackEnd ==
    /\ pc = "compute"
    /\ cr.stack = << >>
    /\ cr.caller = "callback"
    /\ LET written == Put(session, "roles", RoleList(cr.expanded))
       IN  /\ session' = update_activity(written, now)
           /\ last' = [last EXCEPT !.decision = [status |-> 307, detail |-> "/me"],
                                   !.mid = written]
    /\ pc' = "idle"
    /\ cr' = CrIdle
    /\ UNCHANGED <<now, cfg, interval, max_idle, expired>>

\* ------------------------------------------------------------------ specification
NoRequest ==
    [op |-> "none", guard |-> NoGuard, decision |-> Pending, pre |-> EmptySession,
     mid |-> EmptySession, t |-> StartTime, was_expired |-> FALSE]

Init ==
    /\ session = EmptySession
    /\ now = StartTime
    /\ cfg \in {c \in Configs : create_auth_router(c)}
    /\ interval \in Intervals
    /\ max_idle \in MaxIdles
    /\ pc = "idle"
    /\ cr = CrIdle
    /\ last = NoRequest
    /\ expired = FALSE

Next ==
    \/ \E g \in Guards : GuardedRequest(g)
    \/ UnguardedRequest
    \/ Logout
    \/ Tick
    \/ \E G \in SUBSET GroupIds : ComputeCall(G)
    \/ ComputeStep
    \/ ComputeReturn
    \/ \E outcome \in ProviderOutcomes : AuthCallbackFail(outcome)
    \/ \E answer \in SUBSET GroupIds : AuthCallbackBegin(answer)
    \/ AuthCallbackEnd

Spec == Init /\ [][Next]_vars

\* The guards are functions of the session mapping they are handed.  SpecAny
\* starts them on every mapping over the four keys, also on ones no handler
\* of this repository writes (a session without `user` that still holds
\* `roles`, a session without timestamps).
AnySessions ==
    { [k \in K |-> CASE k = "user" -> TheUser
                     [] k = "roles" -> rv
                     [] k = "groups_fetched_at" -> StartTime
                     [] k = "last_activity_at" -> StartTime] :
        K \in SUBSET {"user", "roles", "groups_fetched_at", "last_activity_at"},
        rv \in {RoleList({"admin", "a"}), NotAList} }

InitAny ==
    /\ session \in AnySessions
    /\ now = StartTime
    /\ cfg \in {c \in Configs : create_auth_router(c)}
    /\ interval \in Intervals
    /\ max_idle \in MaxIdles
    /\ pc = "idle"
    /\ cr = CrIdle
    /\ last = NoRequest
    /\ expired = FALSE

SpecAny == InitAny /\ [][Next]_vars

\* ------------------------------------------------------------------ claims
\* the two mappings agree on key k: both lack it or both hold the same value
SameKey(s1, s2, k) == (Has(s1, k) <=> Has(s2, k)) /\ (Has(s1, k) => s1[k] = s2[k])

\* the last request ran a guard
Guarded == last.op = "guard"

\* the last request ran a guard on a session with a user that was not stale
GuardedFresh == Guarded /\ Has(last.pre, "user") /\ ~is_session_stale(last.pre, last.t)

\* C1: whichever of the three guards runs, a session without `user` is
\* answered "Not authenticated" (401) whatever else it holds, and Allow or
\* Forbidden (403) is only decided for a session with a user that is not stale.
C1_UnauthenticatedFirst ==
    Guarded =>
        /\ (~Has(last.pre, "user") => last.decision = NotAuthenticated)
        /\ (last.decision.status \in {200, 403} =>
                Has(last.pre, "user") /\ ~is_session_stale(last.pre, last.t))

\* a guard asking for "admin" rejected a session that holds the role but no user
C1_Witness ==
    /\ Guarded
    /\ last.guard = [kind |-> "require_roles", args |-> <<"admin">>]
    /\ ~Has(last.pre, "user")
    /\ "admin" \in get_roles(last.pre)
    /\ last.decision = NotAuthenticated

\* C2: a guarded request answered Unauthenticated (401) ends with the
\* last_activity_at it started with.
C2_UnauthenticatedKeepsIdleClock ==
    (Guarded /\ last.decision.status = 401) => SameKey(session, last.pre, "last_activity_at")

\* C3: after a guarded request was rejected because the idle limit had passed,
\* every later guarded request is answered 401 until the next successful callback.
C3_IdleTimeoutSticky ==
    (Guarded /\ last.was_expired) => last.decision.status = 401

\* C4: for a session with a user that is not stale, require_roles allows iff
\* every non-empty required name, lowercased, is among the lowercased session
\* roles, and answers 403 otherwise; without required names it allows.
C4_AllMode ==
    (GuardedFresh /\ last.guard.kind = "require_roles") =>
        LET args == last.guard.args
            stored == {Lower(r) : r \in get_roles(last.pre)}
            all == \A i \in 1..Len(args) : args[i] # "" => Lower(args[i]) \in stored
        IN  /\ all => last.decision = Allow
            /\ ~all => last.decision.status = 403

\* require_roles("Admin", "support") allowed a session whose roles are stored as
\* "Admin", "support", "user"
C4_Witness ==
    /\ GuardedFresh
    /\ last.guard = [kind |-> "require_roles", args |-> <<"Admin", "support">>]
    /\ get_roles(last.pre) = {"Admin", "support", "user"}
    /\ last.decision = Allow

\* C5: for a session with a user that is not stale, require_any_role and
\* require_role allow iff some required name, lowercased, is among the
\* lowercased session roles, and answer 403 otherwise.
C5_AnyMode ==
    (GuardedFresh /\ last.guard.kind \in {"require_any_role", "require_role"}) =>
        LET args == last.guard.args
            stored == {Lower(r) : r \in get_roles(last.pre)}
            any == \E i \in 1..Len(args) : args[i] # "" /\ Lower(args[i]) \in stored
        IN  /\ any => last.decision = Allow
            /\ ~any => last.decision.status = 403

\* staleness as the claim states it, for a session that holds groups_fetched_at
StaleAsStated(sess, t) ==
    LET idle_for == IF Has(sess, "last_activity_at") THEN t - sess["last_activity_at"] ELSE 0
    IN  \/ (interval > 0 /\ t - sess["groups_fetched_at"] >= interval)
        \/ (max_idle > 0 /\ idle_for >= max_idle)

\* C6: is_session_stale is true iff the refresh interval is on and the roles
\* are at least that old, or the idle limit is on and the last activity (now,
\* when none is recorded) is at least that old; a guard that found a user
\* answers "Session expired" exactly then.
C6_StaleIff ==
    /\ Has(session, "groups_fetched_at") =>
            (is_session_stale(session, now) <=> StaleAsStated(session, now))
    /\ (Guarded /\ Has(last.pre, "user") /\ Has(last.pre, "groups_fetched_at")) =>
            ((last.decision = SessionExpired) <=> StaleAsStated(last.pre, last.t))

\* a session idle for exactly the limit, its roles younger than the refresh
\* interval, was judged stale
C6_Witness ==
    /\ Guarded
    /\ Has(last.pre, "user") /\ Has(last.pre, "groups_fetched_at")
    /\ Has(last.pre, "last_activity_at")
    /\ max_idle > 0
    /\ last.t - last.pre["last_activity_at"] = max_idle
    /\ (interval = 0 \/ last.t - last.pre["groups_fetched_at"] < interval)
    /\ last.decision = SessionExpired

\* compute_roles has left its loop and is about to return list(expanded)
Computed == pc = "compute" /\ cr.stack = << >>

\* the roles one inheritance step away from a set of roles
ImpliedBy(S) == UNION {Get(cfg.role_inherits, r, {}) : r \in S}

RECURSIVE Within(_, _)
\* the roles at most n inheritance steps away from S
Within(S, n) == IF n = 0 THEN S ELSE Within(S \cup ImpliedBy(S), n - 1)

\* the roles whose configured group set, lowercased, meets G
Matched(G) ==
    {r \in DOMAIN cfg.role_groups : \E g \in cfg.role_groups[r] : Lower(g) \in G}

\* C7: compute_roles returns exactly the directly matched roles and the roles
\* reachable from them through role_inherits: a superset of the direct
\* matches, closed under role_inherits, with nothing unreachable in it; a role
\* with an empty group set is not directly matched.
C7_ClosureOfDirect ==
    Computed =>
        /\ cr.direct = Matched(cr.G)
        /\ cr.direct \subseteq cr.expanded
        /\ ImpliedBy(cr.expanded) \subseteq cr.expanded
        /\ cr.expanded = Within(Matched(cr.G), Cardinality(RoleNames))
        /\ \A r \in DOMAIN cfg.role_groups : cfg.role_groups[r] = {} => r \notin cr.direct

\* main.py's configuration, member of the admin group only: admin, support, user
C7_Witness ==
    /\ Computed
    /\ cfg = CfgMain
    /\ cr.G = {"abc-123"}
    /\ cr.direct = {"admin"}
    /\ cr.expanded = {"admin", "support", "user"}

\* C8: no role is pushed on the stack twice, the loop runs at most once per
\* role of the result, and on the cycle a -> b -> a with direct match {a} it
\* ends with {a, b}.
C8_PushedOnce ==
    /\ \A r \in RoleNames : cr.pushes[r] <= 1
    /\ cr.pops <= Cardinality(cr.expanded)
    /\ cr.pops + Len(cr.stack) = Cardinality(cr.expanded)
    /\ (Computed /\ cfg = CfgCycle /\ cr.direct = {"a"}) => cr.expanded = {"a", "b"}

\* the loop ended on the cyclic configuration after expanding a and b once each
C8_Witness ==
    /\ Computed
    /\ cfg = CfgCycle
    /\ cr.direct = {"a"}
    /\ cr.expanded = {"a", "b"}
    /\ cr.pops = 2

\* C9: a role is directly matched whenever one of its configured group ids
\* equals, ignoring case, one of the member group ids handed to compute_roles.
C9_CaseInsensitiveGroups ==
    pc = "compute" =>
        \A r \in DOMAIN cfg.role_groups :
            (\E g \in cfg.role_groups[r], m \in cr.G : Lower(g) = Lower(m)) => r \in cr.direct

\* C10: a callback whose provider step failed leaves user, roles and
\* groups_fetched_at as they were; when the failure is the token exchange or
\* the group lookup the whole session is as it was.
C10_FailedCallbackWritesNothing ==
    (last.op = "callback" /\ last.decision.status \in {400, 500}) =>
        /\ SameKey(session, last.pre, "user")
        /\ SameKey(session, last.pre, "roles")
        /\ SameKey(session, last.pre, "groups_fetched_at")
        /\ (last.decision.status = 500 => session = last.pre)

\* the group lookup failed during the callback of a browser that never logged in
C10_Witness ==
    /\ last.op = "callback"
    /\ last.decision = [status |-> 500, detail |-> "HTTPStatusError"]
    /\ ~Has(last.pre, "user")
    /\ session = EmptySession


\* C11: a callback whose provider step failed (it did not end with the
\* redirect to /me) is answered with a status of the 400 class.
C11_ProviderFailureIs400 ==
    (last.op = "callback" /\ last.decision # Pending /\ last.decision.status # 307) =>
        last.decision.status \in 400..499


\* C12: under a configuration that names more than 20 distinct group ids the
\* application does not start: no request, callback or compute_roles call is
\* ever served.
C12_WideConfigNeverServes ==
    Cardinality(get_all_config_group_ids(cfg.role_groups)) > MaxBatch =>
        (last.op = "none" /\ pc = "idle")


\* C13: a guard that finds a user checks staleness on the session as the
\* request found it; a stale session is rejected unstamped, a fresh one is
\* stamped with the request's time and then decided Allow or Forbidden.
C13_CheckStampDecide ==
    (Guarded /\ Has(last.pre, "user")) =>
        IF is_session_stale(last.pre, last.t)
        THEN /\ last.decision = SessionExpired
             /\ last.mid = last.pre
        ELSE /\ last.decision.status \in {200, 403}
             /\ last.mid = Put(last.pre, "last_activity_at", last.t)

\* a request one second after the last activity was stamped and then forbidden
C13_Witness ==
    /\ Guarded
    /\ Has(last.pre, "user") /\ Has(last.pre, "last_activity_at")
    /\ last.pre["last_activity_at"] < last.t
    /\ last.decision.status = 403
    /\ last.mid["last_activity_at"] = last.t


\* the keys written by a login
SameAuthKeys(s1, s2) == \A k \in {"user", "roles", "groups_fetched_at"} : SameKey(s1, s2, k)

\* the step is a logout request
LogoutStep == last' # last /\ last'.op = "logout"

\* the step is a callback whose provider step succeeded, up to its call of compute_roles
LoginBeginStep == pc = "idle" /\ pc' = "compute" /\ cr'.caller = "callback"

\* the step is the end of a successful callback
LoginEndStep == pc = "compute" /\ pc' = "idle" /\ cr.caller = "callback"

\* C14: user, roles and groups_fetched_at change only in a successful callback
\* and in a logout; every other step (guarded and unguarded requests and their
\* stamps, failed callbacks, the clock) leaves them as they are, and a
\* successful callback ends with the user, its own time as groups_fetched_at
\* and, as roles, the closure of the roles its member groups match.
C14_AuthKeysFrame ==
    [][ /\ (~LogoutStep /\ ~LoginBeginStep /\ ~LoginEndStep) => SameAuthKeys(session', session)
        /\ LoginEndStep =>
              /\ session'["user"] = TheUser
              /\ session'["groups_fetched_at"] = last.t
              /\ session'["roles"] = RoleList(Within(Matched(cr.G), Cardinality(RoleNames)))
      ]_vars

\* a guarded request after the login was forbidden and left the three keys of
\* the login as they were
C14_Witness ==
    /\ Guarded
    /\ last.decision.status = 403
    /\ Has(session, "user")
    /\ get_roles(session) # {}
    /\ session["groups_fetched_at"] < last.t
    /\ SameAuthKeys(session, last.pre)


\* the session cannot pass a guard while the refresh interval is on: it has no
\* user, or its roles are at least as old as the interval
RefreshLocked ==
    /\ interval > 0
    /\ \/ ~Has(session, "user")
       \/ (Has(session, "groups_fetched_at") /\ now - session["groups_fetched_at"] >= interval)

\* the step is a guarded request
GuardStep == last' # last /\ last'.op = "guard"

\* C15: with the refresh interval on, once the roles are at least as old as the
\* interval every guarded request is answered 401, whatever requests, stamps,
\* logouts and clock ticks come in between, until a successful callback writes
\* a new groups_fetched_at.
C15_RefreshSticky ==
    [][ (RefreshLocked /\ ~LoginBeginStep) =>
            /\ RefreshLocked'
            /\ GuardStep => last'.decision.status = 401
      ]_vars

\* a session with activity in this very second was rejected because its roles
\* are as old as the refresh interval
C15_Witness ==
    /\ Guarded
    /\ interval > 0
    /\ Has(last.pre, "user")
    /\ last.t - last.pre["groups_fetched_at"] >= interval
    /\ last.pre["last_activity_at"] = last.t
    /\ last.decision = SessionExpired
    /\ RefreshLocked


\* an empty or blank role name
Blank(s) == s \in {"", " "}
NotBlank(s) == ~Blank(s)

\* the guard built from the same arguments without the empty and blank ones
Stripped(g) == [kind |-> g.kind, args |-> SelectSeq(g.args, NotBlank)]

\* C16: a guard built by require_roles or require_any_role decides every
\* request as the guard built without its empty and blank arguments does.
C16_BlankArgumentsDropped ==
    (Guarded /\ last.guard.kind \in {"require_roles", "require_any_role"}) =>
        last.decision = Dep(Stripped(last.guard), last.pre, last.t).decision


\* a request has been served and no callback is under way
RequestDone == last.op # "none" /\ pc = "idle"

\* C17: a request that ends with a user in the session ends with
\* last_activity_at equal to its own time, and a request that ends without a
\* user ends without a last_activity_at.
C17_EveryRequestStamps ==
    RequestDone =>
        /\ Has(session, "user") =>
              (Has(session, "last_activity_at") /\ session["last_activity_at"] = last.t)
        /\ ~Has(session, "user") => ~Has(session, "last_activity_at")


\* C18: a logout leaves the session empty, and an empty session stays empty
\* and has every guarded request answered "Not authenticated" through every
\* step but a successful callback.
C18_LogoutLocks ==
    [][ /\ LogoutStep => session' = EmptySession
        /\ (session = EmptySession /\ ~LoginBeginStep) =>
              /\ session' = EmptySession
              /\ GuardStep => last'.decision = NotAuthenticated
      ]_vars

\* a session that had been rejected for idleness and then logged out was
\* answered "Not authenticated" by a guard and is still empty
C18_Witness ==
    /\ Guarded
    /\ last.was_expired
    /\ last.pre = EmptySession
    /\ last.decision = NotAuthenticated
    /\ session = EmptySession

\* C19: when a successful callback has ended, whatever the session held
\* before, the session is not stale at the callback's time and no guard
\* answers 401 to a request made at that time.
C19_ReloginFresh ==
    (last.op = "callback" /\ last.decision.status = 307) =>
        /\ ~is_session_stale(session, last.t)
        /\ Has(session, "groups_fetched_at") /\ session["groups_fetched_at"] = last.t
        /\ Has(session, "last_activity_at") /\ session["last_activity_at"] = last.t
        /\ \A g \in Guards : Dep(g, session, last.t).decision.status # 401

\* a callback succeeded on a session that was stale, idle for at least the
\* limit, with both thresholds on
C19_Witness ==
    /\ last.op = "callback"
    /\ last.decision.status = 307
    /\ interval > 0 /\ max_idle > 0
    /\ Has(last.pre, "user") /\ Has(last.pre, "last_activity_at")
    /\ last.t - last.pre["last_activity_at"] >= max_idle
    /\ is_session_stale(last.pre, last.t)


\* C20: between requests `user` is in the session iff `roles` is and iff
\* groups_fetched_at is, last_activity_at is never there without `user`, and no
\* guard has evaluated staleness on a session without groups_fetched_at.
\* (Inside auth_callback, between its writes of `user` and of `roles`, the
\* session holds the one without the other; no other request sees that.)
C20_LoginKeysTogether ==
    pc = "idle" =>
        /\ Has(session, "user") <=> Has(session, "roles")
        /\ Has(session, "user") <=> Has(session, "groups_fetched_at")
        /\ Has(session, "last_activity_at") => Has(session, "user")
        /\ (Guarded /\ Has(last.pre, "user")) => Has(last.pre, "groups_fetched_at")

\* a logout of a logged-in session removed all of its keys
C20_Witness ==
    /\ last.op = "logout"
    /\ Has(last.pre, "user") /\ Has(last.pre, "roles")
    /\ Has(last.pre, "groups_fetched_at") /\ Has(last.pre, "last_activity_at")
    /\ session = EmptySession

====
